---- MODULE Spec2Model ----
(***************************************************************************)
(* A model of cara/models.py: intervals, piecewise constant functions,     *)
(* the ventilation hierarchy, the infected population, the recursive,      *)
(* memoized concentration model and the exposure model.                    *)
(*                                                                         *)
(* Numbers.  Times are whole hours.  Periods and durations of a            *)
(* PeriodicInterval are minutes and are drawn as multiples of 60, so that  *)
(* period/60 is exact.  Rates (deposition, decay, air exchange) are whole  *)
(* multiples of ln(2) per hour, so that exp(-rate * hours) is exactly      *)
(* 2^-(rate * hours); concentrations are fixed-point numbers with          *)
(* FracBits fractional bits, rounded down the way a float rounds.          *)
(***************************************************************************)
EXTENDS Integers, Sequences, FiniteSets, TLC

VARIABLES obj, out, concentration_cache, emission_rate_cache,
          state_change_times_cache, ncalls

vars == <<obj, out, concentration_cache, emission_rate_cache,
          state_change_times_cache, ncalls>>

caches == <<concentration_cache, emission_rate_cache, state_change_times_cache>>

(***************************************************************************)
(* Bounds of the model.                                                    *)
(***************************************************************************)
\* interval boundaries of the drawn SpecificIntervals lie in 0..MaxPoint
MaxPoint == 2
\* a drawn SpecificInterval has at most MaxPairs boundary pairs
MaxPairs == 2
\* query times of the interval operations go this far beyond the day
MaxOver == 2
\* a drawn PiecewiseConstant has at most MaxValues values
MaxValues == 2
\* the model operations are queried at the times 0..MaxTime
MaxTime == 3
\* at most MaxCalls queries are made in one run
MaxCalls == 3
\* fractional bits of the fixed-point concentrations
FracBits == 10

(***************************************************************************)
(* Program constants.                                                      *)
(***************************************************************************)
\* np.arange(0, 24, ...): the day over which a PeriodicInterval repeats
DayHours == 24
\* period / 60, duration / 60: minutes to hours
MinutesPerHour == 60

NoCall == [op |-> "none"]

(***************************************************************************)
(* Interval, SpecificInterval, PeriodicInterval                            *)
(***************************************************************************)
BaseInterval == [kind |-> "Interval"]

SpecificInterval(present_times) ==
    [kind |-> "SpecificInterval", present_times |-> present_times]

PeriodicInterval(period, duration) ==
    [kind |-> "PeriodicInterval", period |-> period, duration |-> duration]

\* np.arange(0, stop, step) for a whole step > 0: 0, step, 2*step, ... < stop
Arange(stop, step) ==
    [j \in 1..((stop + step - 1) \div step) |-> (j - 1) * step]

PeriodicBoundariesShortDay(period, duration) ==
    IF period = 0 \/ duration = 0
    THEN <<>>
    ELSE LET starts == Arange(DayHours \div 2, period \div MinutesPerHour)
         IN  [j \in DOMAIN starts |->
                <<starts[j], starts[j] + duration \div MinutesPerHour>>]

\* PeriodicInterval.boundaries
PeriodicBoundaries(period, duration) ==
    IF period = 0 \/ duration = 0
    THEN <<>>
    ELSE LET starts == Arange(DayHours, period \div MinutesPerHour)
         IN  [j \in DOMAIN starts |->
                <<starts[j], starts[j] + duration \div MinutesPerHour>>]

\* Interval.boundaries, dispatched on the class
Boundaries(iv) ==
    CASE iv.kind = "SpecificInterval" -> iv.present_times
      [] iv.kind = "PeriodicInterval" -> PeriodicBoundaries(iv.period, iv.duration)
      [] OTHER -> <<>>

RECURSIVE TransitionsFrom(_, _, _)
\* the loop of Interval.transition_times: transitions.update([start, end])
TransitionsFrom(b, i, transitions) ==
    IF i > Len(b)
    THEN transitions
    ELSE TransitionsFrom(b, i + 1, transitions \cup {b[i][1], b[i][2]})

\* Interval.transition_times
IntervalTransitionTimes(iv) == TransitionsFrom(Boundaries(iv), 1, {})

RECURSIVE TriggeredFromClosedStart(_, _, _)
TriggeredFromClosedStart(b, i, time) ==
    IF i > Len(b)
    THEN FALSE
    ELSE IF b[i][1] <= time /\ time <= b[i][2]
         THEN TRUE
         ELSE TriggeredFromClosedStart(b, i + 1, time)

RECURSIVE TriggeredFrom(_, _, _)
\* the loop of Interval.triggered: the first pair with start < time <= end
TriggeredFrom(b, i, time) ==
    IF i > Len(b)
    THEN FALSE
    ELSE IF b[i][1] < time /\ time <= b[i][2]
         THEN TRUE
         ELSE TriggeredFrom(b, i + 1, time)

\* Interval.triggered
Triggered(iv, time) == TriggeredFrom(Boundaries(iv), 1, time)

(***************************************************************************)
(* The intervals and query times the interval operations are applied to.   *)
(***************************************************************************)
Points == 0..MaxPoint

\* every pair of points, well formed (start < end) or not
PairSet == Points \X Points

PairSeqs == UNION {[1..n -> PairSet] : n \in 0..MaxPairs}

\* periods and durations in minutes: never, hourly, every 2, 3 and 5 hours
PeriodSet == {0, 60, 120, 180, 300}

DurationSet == {0, 60, 120, 180, 300, 360}

IntervalSet ==
    {BaseInterval}
    \cup {SpecificInterval(p) : p \in PairSeqs}
    \cup {PeriodicInterval(p, d) : p \in PeriodSet, d \in DurationSet}

IntervalTimes == 0..(DayHours + MaxOver)

(***************************************************************************)
(* SpecInterval: an interval is constructed and one of its operations is   *)
(* called (the interval is immutable: a call leaves nothing behind).       *)
(***************************************************************************)
InitInterval ==
    /\ obj \in IntervalSet
    /\ out = NoCall
    /\ concentration_cache = <<>>
    /\ emission_rate_cache = <<>>
    /\ state_change_times_cache = <<>>
    /\ ncalls = 0

CallTriggered ==
    \E time \in IntervalTimes :
        /\ out = NoCall
        /\ out' = [op |-> "triggered", time |-> time, ret |-> Triggered(obj, time)]
        /\ UNCHANGED <<obj, caches, ncalls>>

CallTransitionTimes ==
    /\ out = NoCall
    /\ out' = [op |-> "transition_times", ret |-> IntervalTransitionTimes(obj)]
    /\ UNCHANGED <<obj, caches, ncalls>>

CallBoundaries ==
    /\ out = NoCall
    /\ out' = [op |-> "boundaries", ret |-> Boundaries(obj)]
    /\ UNCHANGED <<obj, caches, ncalls>>

NextInterval == CallTriggered \/ CallTransitionTimes \/ CallBoundaries

SpecInterval == InitInterval /\ [][NextInterval]_vars

(***************************************************************************)
(* Claims about the intervals (checked under SpecInterval).                *)
(***************************************************************************)
\* some boundary pair of the interval holds the time in (start, end]
InSomePair(iv, time) ==
    \E j \in DOMAIN Boundaries(iv) :
        Boundaries(iv)[j][1] < time /\ time <= Boundaries(iv)[j][2]

\* C6: Interval.triggered(t) is true exactly when some boundary pair has
\* start < t <= end.  In particular the end of a pair with start < end is
\* triggered, and the start of the only pair of an interval is not (a start
\* that lies inside another pair is triggered through that other pair).
ThmC6_TriggeredIffInPair ==
    out.op = "triggered" =>
        LET b == Boundaries(obj) IN
        /\ out.ret = InSomePair(obj, out.time)
        /\ \A j \in DOMAIN b :
              (b[j][1] < b[j][2] /\ out.time = b[j][2]) => out.ret
        /\ (Len(b) = 1 /\ out.time = b[1][1]) => ~out.ret

\* a two-pair interval queried at the end of its second pair, and triggered
WitC6_TriggeredAtEnd ==
    /\ out.op = "triggered"
    /\ obj.kind = "SpecificInterval"
    /\ Len(obj.present_times) = 2
    /\ obj.present_times[2][1] < obj.present_times[2][2]
    /\ out.time = obj.present_times[2][2]
    /\ ~(obj.present_times[1][1] < out.time /\ out.time <= obj.present_times[1][2])
    /\ out.ret

\* the end of the last boundary pair of a PeriodicInterval with period > 0
PeriodicLastEnd(iv) ==
    LET step == iv.period \div MinutesPerHour
    IN  ((DayHours + step - 1) \div step - 1) * step + iv.duration \div MinutesPerHour

Return(v) == [raised |-> "", value |-> v]

Raise(e) == [raised |-> e, value |-> 0]

\* set(seq): the elements of a tuple
SetOf(seq) == {seq[i] : i \in DOMAIN seq}

Min(S) == CHOOSE x \in S : \A y \in S : x <= y

RECURSIVE Sorted(_)
\* tuple(sorted(S)) of a set of numbers: ascending, each element once
Sorted(S) ==
    IF S = {} THEN <<>> ELSE <<Min(S)>> \o Sorted(S \ {Min(S)})

PiecewiseConstant(transition_times, values) ==
    [transition_times |-> transition_times, values |-> values]

\* the mutant of __post_init__ that sorts without set(): duplicates pass
PostInitKeepsDuplicates(transition_times, values) ==
    IF Len(transition_times) # Len(values) + 1
    THEN Raise("ValueError")
    ELSE IF \E i \in 1..(Len(transition_times) - 1) :
                transition_times[i] > transition_times[i + 1]
         THEN Raise("ValueError")
         ELSE Return(PiecewiseConstant(transition_times, values))

\* PiecewiseConstant.__post_init__: the two validations of the constructor
PostInit(transition_times, values) ==
    IF Len(transition_times) # Len(values) + 1
    THEN Raise("ValueError")
    ELSE IF Sorted(SetOf(transition_times)) # transition_times
         THEN Raise("ValueError")
         ELSE Return(PiecewiseConstant(transition_times, values))

RECURSIVE ValueLoopClosedStart(_, _, _)
ValueLoopClosedStart(f, i, time) ==
    IF f.transition_times[i] <= time /\ time < f.transition_times[i + 1]
    THEN f.values[i]
    ELSE IF i = Len(f.values)
         THEN f.values[i]
         ELSE ValueLoopClosedStart(f, i + 1, time)

RECURSIVE ValueLoop(_, _, _)
\* the for loop of PiecewiseConstant.value over zip(times[:-1], times[1:],
\* values): it breaks at the first t1 < time <= t2 and returns the loop
\* variable, which is the last value when the loop runs to its end
ValueLoop(f, i, time) ==
    IF f.transition_times[i] < time /\ time <= f.transition_times[i + 1]
    THEN f.values[i]
    ELSE IF i = Len(f.values)
         THEN f.values[i]
         ELSE ValueLoop(f, i + 1, time)

\* PiecewiseConstant.value; values[0] and values[-1] of an empty tuple raise
PiecewiseValue(f, time) ==
    IF time <= f.transition_times[1]
    THEN IF Len(f.values) = 0 THEN Raise("IndexError") ELSE Return(f.values[1])
    ELSE IF time > f.transition_times[Len(f.transition_times)]
         THEN IF Len(f.values) = 0 THEN Raise("IndexError")
              ELSE Return(f.values[Len(f.values)])
         ELSE Return(ValueLoop(f, 1, time))

RECURSIVE IntervalLoopKeepsAll(_, _, _)
IntervalLoopKeepsAll(f, i, present_times) ==
    IF i > Len(f.values)
    THEN present_times
    ELSE IntervalLoopKeepsAll(f, i + 1, Append(present_times,
                <<f.transition_times[i], f.transition_times[i + 1]>>))

RECURSIVE IntervalLoop(_, _, _)
\* the for loop of PiecewiseConstant.interval: the sub-intervals whose value
\* is truthy are appended in order
IntervalLoop(f, i, present_times) ==
    IF i > Len(f.values)
    THEN present_times
    ELSE IntervalLoop(f, i + 1,
            IF f.values[i] # 0
            THEN Append(present_times,
                        <<f.transition_times[i], f.transition_times[i + 1]>>)
            ELSE present_times)

\* PiecewiseConstant.interval
PiecewiseInterval(f) == SpecificInterval(IntervalLoop(f, 1, <<>>))

(***************************************************************************)
(* SpecPiecewise: a PiecewiseConstant is constructed from drawn arguments  *)
(* and, when the constructor accepts them, one of its operations is called. *)
(***************************************************************************)
TimesSeqs == UNION {[1..n -> Points] : n \in 0..(MaxValues + 1)}

ValueSet == {0, 1, 5}

ValuesSeqs == UNION {[1..n -> ValueSet] : n \in 0..MaxValues}

PiecewiseTimes == 0..(MaxPoint + 1)

InitPiecewise ==
    /\ obj \in {[state |-> "arguments", transition_times |-> tt, values |-> v] :
                    tt \in TimesSeqs, v \in ValuesSeqs}
    /\ out = NoCall
    /\ concentration_cache = <<>>
    /\ emission_rate_cache = <<>>
    /\ state_change_times_cache = <<>>
    /\ ncalls = 0

Construct ==
    /\ obj.state = "arguments"
    /\ LET r == PostInit(obj.transition_times, obj.values) IN
       /\ out' = [op |-> "PiecewiseConstant", raised |-> r.raised]
       /\ obj' = [obj EXCEPT !.state = IF r.raised = "" THEN "constructed"
                                       ELSE "rejected"]
    /\ UNCHANGED <<caches, ncalls>>

CallValue ==
    /\ obj.state = "constructed"
    /\ out.op = "PiecewiseConstant"
    /\ \E time \in PiecewiseTimes :
         LET r == PiecewiseValue(obj, time) IN
         out' = [op |-> "value", time |-> time, raised |-> r.raised, ret |-> r.value]
    /\ UNCHANGED <<obj, caches, ncalls>>

CallInterval ==
    /\ obj.state = "constructed"
    /\ out.op = "PiecewiseConstant"
    /\ out' = [op |-> "interval", ret |-> PiecewiseInterval(obj)]
    /\ UNCHANGED <<obj, caches, ncalls>>

NextPiecewise == Construct \/ CallValue \/ CallInterval

SpecPiecewise == InitPiecewise /\ [][NextPiecewise]_vars

(***************************************************************************)
(* Claims about PiecewiseConstant (checked under SpecPiecewise).           *)
(***************************************************************************)
StrictlyIncreasing(seq) ==
    \A i \in 1..(Len(seq) - 1) : seq[i] < seq[i + 1]

ThmC9_ValueLookup ==
    out.op = "value" =>
        LET tt == obj.transition_times
            v == obj.values
            t == out.time
        IN  IF Len(v) = 0
            THEN out.raised = "IndexError"
            ELSE /\ out.raised = ""
                 /\ t <= tt[1] => out.ret = v[1]
                 /\ t > tt[Len(tt)] => out.ret = v[Len(v)]
                 /\ (tt[1] < t /\ t <= tt[Len(tt)]) =>
                       \E i \in 1..Len(v) :
                           /\ tt[i] < t /\ t <= tt[i + 1]
                           /\ out.ret = v[i]
                           /\ \A j \in 1..Len(v) :
                                 (tt[j] < t /\ t <= tt[j + 1]) => j = i
                 /\ \A i \in 2..(Len(tt) - 1) : t = tt[i] => out.ret = v[i - 1]

\* a query exactly at the inner transition time of a two-valued function
WitC9_AtInnerTransition ==
    /\ out.op = "value"
    /\ Len(obj.values) = 2
    /\ obj.values[1] # obj.values[2]
    /\ out.time = obj.transition_times[2]
    /\ out.raised = ""
    /\ out.ret = obj.values[1]

\* the indices of the sub-intervals whose value satisfies Keep, ascending
KeptIndices(v, Keep(_)) ==
    SelectSeq([i \in 1..Len(v) |-> i], LAMBDA i : Keep(v[i]))

\* the sub-intervals (transition_times[i], transition_times[i+1]) of the
\* kept indices, in order
SubIntervals(f, Keep(_)) ==
    LET idx == KeptIndices(f.values, Keep)
    IN  [k \in DOMAIN idx |->
            <<f.transition_times[idx[k]], f.transition_times[idx[k] + 1]>>]

\* C10: interval() is the Interval whose boundary pairs are exactly the
\* sub-intervals with a non-zero value, in order; for a 0/1-valued function
\* it has the transition_times() and the triggered(t) of the SpecificInterval
\* built from the sub-intervals of value 1.
ThmC10_IntervalOfNonZero ==
    out.op = "interval" =>
        LET NonZero(x) == x # 0
            One(x) == x = 1
            ones == SpecificInterval(SubIntervals(obj, One))
        IN  /\ Boundaries(out.ret) = SubIntervals(obj, NonZero)
            /\ (\A i \in DOMAIN obj.values : obj.values[i] \in {0, 1}) =>
                  /\ IntervalTransitionTimes(out.ret) = IntervalTransitionTimes(ones)
                  /\ \A t \in PiecewiseTimes :
                        Triggered(out.ret, t) = Triggered(ones, t)

\* a step function 0 then 1: only its second sub-interval is kept
WitC10_SecondSubIntervalOnly ==
    /\ out.op = "interval"
    /\ obj.values = <<0, 1>>
    /\ out.ret.present_times = <<<<obj.transition_times[2], obj.transition_times[3]>>>>

(***************************************************************************)
(* Room and the ventilation hierarchy                                      *)
(*                                                                         *)
(* Lengths are decimetres, temperatures tenths of a kelvin, the discharge  *)
(* coefficient tenths, volumes cubic metres.                               *)
(***************************************************************************)
Room(volume) == [volume |-> volume]

AirChange(active, air_exch) ==
    [kind |-> "AirChange", active |-> active, air_exch |-> air_exch]

HEPAFilter(active, q_air_mech) ==
    [kind |-> "HEPAFilter", active |-> active, q_air_mech |-> q_air_mech]

HVACMechanical(active, q_air_mech) ==
    [kind |-> "HVACMechanical", active |-> active, q_air_mech |-> q_air_mech]

\* WindowOpening and its subclass SlidingWindow (kind), with the defaults
\* number_of_windows = 1 and min_deltaT = 0.1 K
Window(kind, active, inside_temp, outside_temp, window_height, opening_length) ==
    [kind |-> kind, active |-> active,
     inside_temp |-> inside_temp, outside_temp |-> outside_temp,
     window_height |-> window_height, opening_length |-> opening_length,
     number_of_windows |-> 1, min_deltaT |-> 1]

MultipleVentilation(ventilations) ==
    [kind |-> "MultipleVentilation", ventilations |-> ventilations]

IsWindow(v) == v.kind \in {"WindowOpening", "SlidingWindow"}

\* floor of the square root
ISqrt(x) == CHOOSE r \in 0..x : r * r <= x /\ (r + 1) * (r + 1) > x

Max(a, b) == IF a >= b THEN a ELSE b

\* WindowOpening.discharge_coefficient (unknown) and SlidingWindow's (0.6)
DischargeCoefficient(v) ==
    IF v.kind = "SlidingWindow" THEN Return(6) ELSE Raise("NotImplementedError")

SingleTransitionTimesActiveOnly(v) == IntervalTransitionTimes(v.active)

\* Ventilation.transition_times and WindowOpening.transition_times
SingleTransitionTimes(v) ==
    IF IsWindow(v)
    THEN IntervalTransitionTimes(v.active)
            \cup SetOf(v.inside_temp.transition_times)
            \cup SetOf(v.outside_temp.transition_times)
    ELSE IntervalTransitionTimes(v.active)

\* the rate of an open window: WindowOpening.air_exchange past its gate
WindowRate(v, room, time) ==
    LET outside_temp == PiecewiseValue(v.outside_temp, time).value
        inside_temp == Max(PiecewiseValue(v.inside_temp, time).value,
                           outside_temp + v.min_deltaT)
        \* 100 * sqrt(9.81 * window_height * temp_gradient)
        root == ISqrt((981 * v.window_height * (inside_temp - outside_temp) * 10)
                        \div outside_temp)
        window_area == v.window_height * v.opening_length * v.number_of_windows
        cd == DischargeCoefficient(v)
    IN  IF cd.raised # ""
        THEN cd
        ELSE Return((3600 * cd.value * window_area * root)
                        \div (3 * room.volume * 100000))

SingleAirExchangeUngated(v, room, time) ==
    CASE v.kind \in {"HEPAFilter", "HVACMechanical"} ->
            Return(v.q_air_mech \div room.volume)
      [] v.kind = "AirChange" -> Return(v.air_exch)
      [] IsWindow(v) -> WindowRate(v, room, time)

\* air_exchange of HEPAFilter, HVACMechanical, AirChange and WindowOpening:
\* 0 when the active interval is not triggered, else the rate
SingleAirExchange(v, room, time) ==
    IF ~Triggered(v.active, time)
    THEN Return(0)
    ELSE CASE v.kind \in {"HEPAFilter", "HVACMechanical"} ->
                 Return(v.q_air_mech \div room.volume)
           [] v.kind = "AirChange" -> Return(v.air_exch)
           [] IsWindow(v) -> WindowRate(v, room, time)

RECURSIVE UnionTransitions(_, _, _)
\* the loop of MultipleVentilation.transition_times
UnionTransitions(vs, i, transitions) ==
    IF i > Len(vs)
    THEN transitions
    ELSE UnionTransitions(vs, i + 1, transitions \cup SingleTransitionTimes(vs[i]))

\* transition_times of any ventilation
VentilationTransitionTimes(v) ==
    IF v.kind = "MultipleVentilation"
    THEN UnionTransitions(v.ventilations, 1, {})
    ELSE SingleTransitionTimes(v)

RECURSIVE SumAirExchangeLast(_, _, _, _, _)
SumAirExchangeLast(vs, i, room, time, total) ==
    IF i > Len(vs)
    THEN Return(total)
    ELSE LET r == SingleAirExchange(vs[i], room, time)
         IN  IF r.raised # ""
             THEN r
             ELSE SumAirExchangeLast(vs, i + 1, room, time, r.value)

RECURSIVE SumAirExchange(_, _, _, _, _)
\* MultipleVentilation.air_exchange: the members' rates in order, summed; a
\* member that raises ends the call
SumAirExchange(vs, i, room, time, total) ==
    IF i > Len(vs)
    THEN Return(total)
    ELSE LET r == SingleAirExchange(vs[i], room, time)
         IN  IF r.raised # ""
             THEN r
             ELSE SumAirExchange(vs, i + 1, room, time, total + r.value)

\* air_exchange of any ventilation
AirExchange(v, room, time) ==
    IF v.kind = "MultipleVentilation"
    THEN SumAirExchange(v.ventilations, 1, room, time, 0)
    ELSE SingleAirExchange(v, room, time)

(***************************************************************************)
(* Virus, Mask, Expiration, Activity, InfectedPopulation                   *)
(*                                                                         *)
(* Particle sizes are multiples of 1e-5 cm and a particle's volume is in   *)
(* units of pi/6 of its cube; ejection factors are thousandths; mask       *)
(* efficiencies are per cent.                                              *)
(***************************************************************************)
Virus(halflife, viral_load_in_sputum, coefficient_of_infectivity) ==
    [halflife |-> halflife, viral_load_in_sputum |-> viral_load_in_sputum,
     coefficient_of_infectivity |-> coefficient_of_infectivity]

\* Virus.decay_constant = ln(2) / halflife, in multiples of ln(2) per hour
DecayConstant(virus) == 1 \div virus.halflife

Mask(eta_exhale, eta_leaks, eta_inhale) ==
    [eta_exhale |-> eta_exhale, eta_leaks |-> eta_leaks, eta_inhale |-> eta_inhale]

\* Mask.exhale_efficiency
ExhaleEfficiency(mask) == (mask.eta_exhale * (100 - mask.eta_leaks)) \div 100

\* an ejection factor of np.inf
Infinity == -1

Expiration(ejection_factor) ==
    [ejection_factor |-> ejection_factor, particle_sizes |-> <<8, 18, 35, 55>>]

Activity(inhalation_rate, exhalation_rate) ==
    [inhalation_rate |-> inhalation_rate, exhalation_rate |-> exhalation_rate]

RECURSIVE AerosolsLoop(_, _, _, _)
\* the loop of Expiration.aerosols over zip(particle_sizes, ejection_factor)
AerosolsLoop(e, mask, i, total) ==
    IF i > Len(e.particle_sizes)
    THEN total
    ELSE LET diameter == e.particle_sizes[i]
             factor == e.ejection_factor[i]
             volume == diameter * diameter * diameter
             contribution == volume * factor
         IN  IF factor = Infinity \/ total = Infinity
             THEN AerosolsLoop(e, mask, i + 1, Infinity)
             ELSE AerosolsLoop(e, mask, i + 1,
                    total + (IF diameter >= 30
                             THEN (contribution * (100 - ExhaleEfficiency(mask))) \div 100
                             ELSE contribution))

\* Expiration.aerosols
Aerosols(e, mask) == AerosolsLoop(e, mask, 1, 0)

InfectedPopulation(number, presence, mask, activity, virus, expiration) ==
    [number |-> number, presence |-> presence, mask |-> mask,
     activity |-> activity, virus |-> virus, expiration |-> expiration]

\* InfectedPopulation.emission_rate_when_present
EmissionRateWhenPresent(inf) ==
    LET aerosols == Aerosols(inf.expiration, inf.mask)
    IN  IF aerosols = Infinity
        THEN 970
        ELSE (inf.virus.viral_load_in_sputum * inf.virus.coefficient_of_infectivity
                * inf.activity.exhalation_rate * aerosols) \div 1000000

\* Population.person_present
PersonPresent(pop, time) == Triggered(pop.presence, time)

\* InfectedPopulation.individual_emission_rate
IndividualEmissionRate(inf, time) ==
    IF ~PersonPresent(inf, time) THEN 0 ELSE EmissionRateWhenPresent(inf)

EmissionRateSingle(inf, time) == IndividualEmissionRate(inf, time)

\* the body of InfectedPopulation.emission_rate (without its cache)
EmissionRate(inf, time) == IndividualEmissionRate(inf, time) * inf.number

(***************************************************************************)
(* ConcentrationModel: the functions of a model (without their caches)     *)
(***************************************************************************)
ConcentrationModel(room, ventilation, infected) ==
    [room |-> room, ventilation |-> ventilation, infected |-> infected]

InfectiousVirusRemovalRateAhead(m, time) ==
    LET air == AirExchange(m.ventilation, m.room, time + 1)
    IN  IF air.raised # ""
        THEN air
        ELSE Return(1 + DecayConstant(m.infected.virus) + air.value)

\* ConcentrationModel.infectious_virus_removal_rate; the deposition rate
\* k = vg * 3600 / h is one rate unit
InfectiousVirusRemovalRate(m, time) ==
    LET k == 1
        air == AirExchange(m.ventilation, m.room, time)
    IN  IF air.raised # ""
        THEN air
        ELSE Return(k + DecayConstant(m.infected.virus) + air.value)

StateChangeTimesVentilationOnly(m) ==
    Sorted(VentilationTransitionTimes(m.ventilation))

\* the body of ConcentrationModel.state_change_times
StateChangeTimes(m) ==
    Sorted(IntervalTransitionTimes(m.infected.presence)
            \cup VentilationTransitionTimes(m.ventilation))

RECURSIVE LastChangeLoopOneEarlier(_, _, _)
LastChangeLoopOneEarlier(times, i, time) ==
    IF i < 1
    THEN 0
    ELSE IF times[i] < time THEN (IF i > 1 THEN times[i - 1] ELSE 0)
         ELSE LastChangeLoopOneEarlier(times, i - 1, time)

LastChangeLoopForward(times, i, time) ==
    LET earlier == {j \in 1..i : times[j] < time}
    IN  IF earlier = {} THEN 0 ELSE times[Min(earlier)]

RECURSIVE LastChangeLoop(_, _, _)
\* the loop of last_state_change over state_change_times()[::-1]
LastChangeLoop(times, i, time) ==
    IF i < 1
    THEN 0
    ELSE IF times[i] < time THEN times[i] ELSE LastChangeLoop(times, i - 1, time)

LastStateChangeSkipsLast(times, time) ==
    LastChangeLoop(times, Len(times) - 1, time)

\* ConcentrationModel.last_state_change, given state_change_times()
LastStateChange(times, time) == LastChangeLoop(times, Len(times), time)

(***************************************************************************)
(* ConcentrationModel.concentration                                        *)
(***************************************************************************)
\* 2 ^ n
RECURSIVE Pow2(_)
Pow2(n) == IF n = 0 THEN 1 ELSE 2 * Pow2(n - 1)

\* the fixed-point one
Scale == Pow2(FracBits)

\* np.exp(-x) for x = n * ln(2), n >= 0, in fixed point: 2^-n, rounded down
ExpNeg(n) == IF n > FracBits THEN 0 ELSE Scale \div Pow2(n)

SegmentUpdateSwapped(IVRR, V, emission_rate, concentration_at_last_state_change, delta_time) ==
    LET fac == ExpNeg(IVRR * delta_time)
        concentration_limit == (emission_rate * Scale) \div (IVRR * V)
    IN  (concentration_limit * fac
            + concentration_at_last_state_change * (Scale - fac)) \div Scale

\* the last four lines of concentration: the closed-form update over one
\* segment, concentration_limit * (1 - fac) + concentration_at_last * fac
SegmentUpdate(IVRR, V, emission_rate, concentration_at_last_state_change, delta_time) ==
    LET fac == ExpNeg(IVRR * delta_time)
        concentration_limit == (emission_rate * Scale) \div (IVRR * V)
    IN  (concentration_limit * (Scale - fac)
            + concentration_at_last_state_change * fac) \div Scale

RECURSIVE Recurrence(_, _)
\* the recurrence of concentration with no cache at all
Recurrence(m, time) ==
    IF time = 0
    THEN Return(0)
    ELSE LET IVRR == InfectiousVirusRemovalRate(m, time)
             t_last_state_change == LastStateChange(StateChangeTimes(m), time)
             c0 == Recurrence(m, t_last_state_change)
         IN  IF IVRR.raised # ""
             THEN IVRR
             ELSE IF c0.raised # ""
                  THEN c0
                  ELSE Return(SegmentUpdate(IVRR.value, m.room.volume,
                                            EmissionRate(m.infected, time),
                                            c0.value, time - t_last_state_change))

(***************************************************************************)
(* The caches of @cached(): one per decorated method, shared by all        *)
(* instances, keyed by the call's arguments (self compares by value).      *)
(* calls lists the times of the nested concentration calls made so far.    *)
(***************************************************************************)
Caches(cc, ec, sc) == [concentration |-> cc, emission_rate |-> ec,
                       state_change_times |-> sc, calls |-> <<>>]

Put(cache, key, value) == (key :> value) @@ cache

ConcentrationKeyTimeOnly(m, time) == <<time>>

ConcentrationKeyModelOnly(m, time) == <<m>>

\* the key of a concentration(self, time) call
ConcentrationKey(m, time) == <<m, time>>

\* @cached() emission_rate(self, time)
EmissionRateCall(inf, time, st) ==
    IF <<inf, time>> \in DOMAIN st.emission_rate
    THEN [value |-> st.emission_rate[<<inf, time>>], st |-> st]
    ELSE LET v == EmissionRate(inf, time)
         IN  [value |-> v,
              st |-> [st EXCEPT !.emission_rate = Put(@, <<inf, time>>, v)]]

\* @cached() state_change_times(self)
StateChangeTimesCall(m, st) ==
    IF <<m>> \in DOMAIN st.state_change_times
    THEN [value |-> st.state_change_times[<<m>>], st |-> st]
    ELSE LET v == StateChangeTimes(m)
         IN  [value |-> v,
              st |-> [st EXCEPT !.state_change_times = Put(@, <<m>>, v)]]

\* a call's outcome together with the caches it leaves
Outcome(raised, value, st) == [raised |-> raised, value |-> value, st |-> st]

RECURSIVE ConcentrationCall(_, _, _)
\* @cached() concentration(self, time): a hit returns the entry; a miss runs
\* the body, whose calls of state_change_times, concentration and
\* emission_rate go through their caches, and stores what it returns; a call
\* that raises stores nothing
ConcentrationCall(m, time, st) ==
    LET key == ConcentrationKey(m, time) IN
    IF key \in DOMAIN st.concentration
    THEN Outcome("", st.concentration[key], st)
    ELSE IF time = 0
    THEN Outcome("", 0, [st EXCEPT !.concentration = Put(@, key, 0)])
    ELSE LET IVRR == InfectiousVirusRemovalRate(m, time) IN
         IF IVRR.raised # ""
         THEN Outcome(IVRR.raised, 0, st)
         ELSE LET times == StateChangeTimesCall(m, st)
                  t_last_state_change == LastStateChange(times.value, time)
                  c0 == ConcentrationCall(m, t_last_state_change,
                           [times.st EXCEPT
                               !.calls = Append(@, t_last_state_change)])
              IN  IF c0.raised # ""
                  THEN c0
                  ELSE LET er == EmissionRateCall(m.infected, time, c0.st)
                           v == SegmentUpdate(IVRR.value, m.room.volume, er.value,
                                              c0.value, time - t_last_state_change)
                       IN  Outcome("", v,
                              [er.st EXCEPT !.concentration = Put(@, key, v)])

(***************************************************************************)
(* The models and query times the operations are applied to.               *)
(***************************************************************************)
Times == 0..MaxTime

\* present over (0, 2] and over (3, 4]
PresenceA == SpecificInterval(<<<<0, 2>>, <<3, 4>>>>)

\* present over (2, 4]
PresenceB == SpecificInterval(<<<<2, 4>>>>)

NoMask == Mask(0, 0, 0)

TypeI == Mask(95, 15, 30)

Breathing == Expiration(<<84, 9, 3, 2>>)

Superspreading == Expiration(<<Infinity, Infinity, Infinity, Infinity>>)

Seated == Activity(5, 5)

SARSCoV2 == Virus(1, 10, 2)

InfectedOne == InfectedPopulation(1, PresenceA, NoMask, Seated, SARSCoV2, Breathing)

InfectedTwo == InfectedPopulation(2, PresenceB, TypeI, Seated, SARSCoV2, Breathing)

InfectedSuper ==
    InfectedPopulation(1, PresenceB, NoMask, Seated, SARSCoV2, Superspreading)

InfectedSet == {InfectedOne, InfectedTwo, InfectedSuper}

TheRoom == Room(100)

\* air change during the first two hours of every four
VentAirHalf == AirChange(PeriodicInterval(240, 120), 1)

\* air change all day: as VentAirHalf up to t = 2
VentAirFull == AirChange(PeriodicInterval(240, 240), 1)

VentHepa == HEPAFilter(SpecificInterval(<<<<1, 3>>>>), 200)

VentHvac == HVACMechanical(PeriodicInterval(180, 60), 100)

\* a sliding window open over (0, 4], the inside temperature stepping up at
\* t = 1
VentWindow ==
    Window("SlidingWindow", SpecificInterval(<<<<0, 4>>>>),
           PiecewiseConstant(<<0, 1, 24>>, <<2930, 3030>>),
           PiecewiseConstant(<<0, 24>>, <<2830>>), 10, 6)

\* a WindowOpening of no subclass, open over (2, 3]
VentAbstract ==
    Window("WindowOpening", SpecificInterval(<<<<2, 3>>>>),
           PiecewiseConstant(<<0, 24>>, <<2930>>),
           PiecewiseConstant(<<0, 24>>, <<2830>>), 10, 6)

\* members with different discontinuity times
VentMulti == MultipleVentilation(<<VentAirHalf, VentHepa>>)

VentMultiWindow ==
    MultipleVentilation(<<HEPAFilter(SpecificInterval(<<<<0, 2>>>>), 200), VentWindow>>)

VentilationSet ==
    {VentAirHalf, VentAirFull, VentHepa, VentHvac, VentWindow, VentAbstract,
     VentMulti, VentMultiWindow}

\* the models of the single-model specification
WideModelSet ==
    {ConcentrationModel(TheRoom, v, inf) : v \in VentilationSet, inf \in InfectedSet}

\* the models that share the caches in the concentration specification
ModelSet ==
    {ConcentrationModel(TheRoom, VentAirHalf, InfectedOne),
     ConcentrationModel(TheRoom, VentAirFull, InfectedOne),
     ConcentrationModel(TheRoom, VentMultiWindow, InfectedTwo),
     ConcentrationModel(TheRoom, VentAbstract, InfectedOne)}

(***************************************************************************)
(* Spec: models are constructed and concentration(t) is queried on them,   *)
(* in any order, through the shared caches.                                *)
(***************************************************************************)
Init ==
    /\ obj = ModelSet
    /\ out = NoCall
    /\ concentration_cache = <<>>
    /\ emission_rate_cache = <<>>
    /\ state_change_times_cache = <<>>
    /\ ncalls = 0

CallConcentration ==
    /\ ncalls < MaxCalls
    /\ \E m \in obj, time \in Times :
         LET r == ConcentrationCall(m, time,
                    Caches(concentration_cache, emission_rate_cache,
                           state_change_times_cache))
         IN  /\ out' = [op |-> "concentration", model |-> m, time |-> time,
                        raised |-> r.raised, ret |-> r.value,
                        hit |-> ConcentrationKey(m, time) \in DOMAIN concentration_cache]
             /\ concentration_cache' = r.st.concentration
             /\ emission_rate_cache' = r.st.emission_rate
             /\ state_change_times_cache' = r.st.state_change_times
    /\ ncalls' = ncalls + 1
    /\ obj' = obj

Next == CallConcentration

Spec == Init /\ [][Next]_vars

(***************************************************************************)
(* Claims about concentration (checked under Spec).                        *)
(***************************************************************************)
\* what the recurrence gives, with no cache, for every model and time
Uncached == [m \in ModelSet |-> [t \in Times |-> Recurrence(m, t)]]

\* C2: concentration(0) returns 0 for every model, whatever its room,
\* ventilation and infected population, and whatever was queried before.
ThmC2_ZeroAtZero ==
    (out.op = "concentration" /\ out.time = 0) =>
        (out.raised = "" /\ out.ret = 0)

\* concentration(0) asked of a model whose concentration at a later time,
\* asked before, was not zero
WitC2_ZeroAfterLaterQuery ==
    /\ out.op = "concentration"
    /\ out.time = 0
    /\ out.ret = 0
    /\ \E t \in Times :
          /\ ConcentrationKey(out.model, t) \in DOMAIN concentration_cache
          /\ concentration_cache[ConcentrationKey(out.model, t)] > 0

\* C4: concentration is continuous at every state-change boundary t0.  For
\* a query at t > 0 anchored at t0 = last_state_change(t): every time in
\* (t0, t] is anchored at t0 and follows one and the same branch of the
\* recurrence, with the rates of t; that branch tends to concentration(t0)
\* as the elapsed time tends to 0; and concentration(t0) itself is the
\* update over the segment that ends at t0, with the rates taken at t0.
ThmC4_ContinuousAtBoundary ==
    (out.op = "concentration" /\ out.raised = "" /\ out.time > 0) =>
        LET m == out.model
            t == out.time
            V == m.room.volume
            times == StateChangeTimes(m)
            t0 == LastStateChange(times, t)
            c0 == Uncached[m][t0].value
            IVRR == InfectiousVirusRemovalRate(m, t).value
            er == EmissionRate(m.infected, t)
        IN  /\ t0 = 0 \/ t0 \in SetOf(times)
            /\ SegmentUpdate(IVRR, V, er, c0, 0) = c0
            /\ \A u \in Times :
                  (t0 < u /\ u <= t) =>
                      /\ LastStateChange(times, u) = t0
                      /\ Uncached[m][u].value = SegmentUpdate(IVRR, V, er, c0, u - t0)
            /\ out.ret = SegmentUpdate(IVRR, V, er, c0, t - t0)
            /\ t0 > 0 =>
                  LET t1 == LastStateChange(times, t0)
                  IN  c0 = SegmentUpdate(InfectiousVirusRemovalRate(m, t0).value, V,
                                         EmissionRate(m.infected, t0),
                                         Uncached[m][t1].value, t0 - t1)

\* a query past a boundary t0 > 0 at which the emission rate or the removal
\* rate changes, the concentration at t0 not being zero
WitC4_RatesChangeAtBoundary ==
    /\ out.op = "concentration"
    /\ out.raised = ""
    /\ out.time > 0
    /\ LET m == out.model
           t0 == LastStateChange(StateChangeTimes(m), out.time)
       IN  /\ t0 > 0
           /\ Uncached[m][t0].value > 0
           /\ out.ret # Uncached[m][t0].value
           /\ EmissionRate(m.infected, out.time) # EmissionRate(m.infected, t0)
           /\ InfectiousVirusRemovalRate(m, out.time)
                 # InfectiousVirusRemovalRate(m, t0)

\* C5: concentration(t) returns the same result whenever it is called on the
\* same model and t, after any queries at other times and on other models: a
\* memoized result always is what the uncached recurrence computes, and an
\* entry made for one model is never returned for a model with other
\* parameters.
ThmC5_MemoizedIsUncached ==
    /\ out.op = "concentration" =>
          /\ out.raised = Uncached[out.model][out.time].raised
          /\ out.ret = Uncached[out.model][out.time].value
    /\ \A m \in ModelSet, t \in Times :
          ConcentrationKey(m, t) \in DOMAIN concentration_cache =>
              /\ Uncached[m][t].raised = ""
              /\ concentration_cache[ConcentrationKey(m, t)] = Uncached[m][t].value
    /\ \A m \in ModelSet, t \in Times :
          <<m.infected, t>> \in DOMAIN emission_rate_cache =>
              emission_rate_cache[<<m.infected, t>>] = EmissionRate(m.infected, t)

\* a repeated query answered from the cache, while the cache also holds a
\* different concentration of another model at the same time
WitC5_HitBesideOtherModel ==
    /\ out.op = "concentration"
    /\ out.hit
    /\ ncalls = 3
    /\ out.ret > 0
    /\ \E m \in ModelSet :
          /\ m # out.model
          /\ ConcentrationKey(m, out.time) \in DOMAIN concentration_cache
          /\ concentration_cache[ConcentrationKey(m, out.time)] # out.ret

(***************************************************************************)
(* SpecModel: one model is constructed and one of its operations is        *)
(* called, state_change_times() any number of times (the model is          *)
(* immutable; what the caches keep between concentration queries is the    *)
(* matter of Spec).                                                        *)
(***************************************************************************)
ModelTimes == 0..(MaxTime + MaxOver)

TheCaches ==
    Caches(concentration_cache, emission_rate_cache, state_change_times_cache)

InitModel ==
    /\ obj \in WideModelSet
    /\ out = NoCall
    /\ concentration_cache = <<>>
    /\ emission_rate_cache = <<>>
    /\ state_change_times_cache = <<>>
    /\ ncalls = 0

CallRemovalRate ==
    /\ out = NoCall
    /\ \E time \in ModelTimes :
         LET r == InfectiousVirusRemovalRate(obj, time)
         IN  out' = [op |-> "infectious_virus_removal_rate", time |-> time,
                     raised |-> r.raised, ret |-> r.value]
    /\ ncalls' = ncalls + 1
    /\ UNCHANGED <<obj, caches>>

CallEmissionRate ==
    /\ out = NoCall
    /\ \E time \in ModelTimes :
         LET r == EmissionRateCall(obj.infected, time, TheCaches)
         IN  /\ out' = [op |-> "emission_rate", time |-> time,
                        raised |-> "", ret |-> r.value]
             /\ emission_rate_cache' = r.st.emission_rate
    /\ ncalls' = ncalls + 1
    /\ UNCHANGED <<obj, concentration_cache, state_change_times_cache>>

\* state_change_times() may be called again and again
CallStateChangeTimes ==
    /\ out = NoCall \/ out.op = "state_change_times"
    /\ ncalls < MaxCalls
    /\ LET r == StateChangeTimesCall(obj, TheCaches)
       IN  /\ out' = [op |-> "state_change_times", ret |-> r.value,
                      hit |-> state_change_times_cache # <<>>]
           /\ state_change_times_cache' = r.st.state_change_times
    /\ ncalls' = ncalls + 1
    /\ UNCHANGED <<obj, concentration_cache, emission_rate_cache>>

CallLastStateChange ==
    /\ out = NoCall
    /\ \E time \in ModelTimes :
         LET r == StateChangeTimesCall(obj, TheCaches)
         IN  /\ out' = [op |-> "last_state_change", time |-> time,
                        ret |-> LastStateChange(r.value, time)]
             /\ state_change_times_cache' = r.st.state_change_times
    /\ ncalls' = ncalls + 1
    /\ UNCHANGED <<obj, concentration_cache, emission_rate_cache>>

\* ventilation.air_exchange(room, time)
CallAirExchange ==
    /\ out = NoCall
    /\ \E time \in ModelTimes :
         LET r == AirExchange(obj.ventilation, obj.room, time)
         IN  out' = [op |-> "air_exchange", time |-> time,
                     raised |-> r.raised, ret |-> r.value]
    /\ ncalls' = ncalls + 1
    /\ UNCHANGED <<obj, caches>>

\* ventilation.transition_times()
CallVentilationTransitionTimes ==
    /\ out = NoCall
    /\ out' = [op |-> "transition_times",
               ret |-> VentilationTransitionTimes(obj.ventilation)]
    /\ ncalls' = ncalls + 1
    /\ UNCHANGED <<obj, caches>>

\* concentration(time), asked of a model nothing is cached for
CallModelConcentration ==
    /\ out = NoCall
    /\ \E time \in ModelTimes :
         LET r == ConcentrationCall(obj, time, TheCaches)
         IN  /\ out' = [op |-> "concentration", time |-> time,
                        raised |-> r.raised, ret |-> r.value,
                        nested |-> r.st.calls]
             /\ concentration_cache' = r.st.concentration
             /\ emission_rate_cache' = r.st.emission_rate
             /\ state_change_times_cache' = r.st.state_change_times
    /\ ncalls' = ncalls + 1
    /\ obj' = obj

NextModel ==
    \/ CallModelConcentration
    \/ CallRemovalRate
    \/ CallEmissionRate
    \/ CallStateChangeTimes
    \/ CallLastStateChange
    \/ CallAirExchange
    \/ CallVentilationTransitionTimes

SpecModel == InitModel /\ [][NextModel]_vars

(***************************************************************************)
(* Claims about the functions of a model (checked under SpecModel).        *)
(***************************************************************************)
\* the state-change times of the model under test, as the program lists them
ListedTimes == StateChangeTimes(obj)

\* the times t > 0 whose segment (last_state_change(t), t] holds the time u
SegmentEndsOf(u) ==
    {t \in ModelTimes : t > 0 /\ LastStateChange(ListedTimes, t) < u /\ u <= t}

\* C1: for every t > 0 and every t' with last_state_change(t) < t' <= t,
\* the removal rate at t' is the removal rate at t and the emission rate at
\* t' is the emission rate at t: the two rates change only at instants that
\* state_change_times() lists, for every ventilation variant and presence.
ThmC1_RatesConstantOnSegments ==
    /\ out.op = "infectious_virus_removal_rate" =>
          /\ \A t \in SegmentEndsOf(out.time) :
                InfectiousVirusRemovalRate(obj, t)
                    = [raised |-> out.raised, value |-> out.ret]
          /\ (out.time >= 1 /\ out.time + 1 \in ModelTimes
                /\ InfectiousVirusRemovalRate(obj, out.time + 1)
                      # [raised |-> out.raised, value |-> out.ret])
                => out.time \in SetOf(ListedTimes)
    /\ out.op = "emission_rate" =>
          /\ \A t \in SegmentEndsOf(out.time) :
                EmissionRate(obj.infected, t) = out.ret
          /\ (out.time >= 1 /\ out.time + 1 \in ModelTimes
                /\ EmissionRate(obj.infected, out.time + 1) # out.ret)
                => out.time \in SetOf(ListedTimes)

\* the removal rate of a window with piecewise temperatures, asked strictly
\* inside a segment, the rate being another one in an earlier segment
WitC1_InsideWindowSegment ==
    /\ out.op = "infectious_virus_removal_rate"
    /\ obj.ventilation.kind = "SlidingWindow"
    /\ out.raised = ""
    /\ \E t \in SegmentEndsOf(out.time) : t > out.time
    /\ \E u \in ModelTimes :
          /\ 0 < u /\ u < out.time
          /\ InfectiousVirusRemovalRate(obj, u).value # out.ret

\* C3: last_state_change(t) is the greatest element of state_change_times()
\* strictly less than t, and 0 when there is none.
ThmC3_GreatestBelow ==
    out.op = "last_state_change" =>
        LET below == {s \in SetOf(ListedTimes) : s < out.time}
        IN  IF below = {}
            THEN out.ret = 0
            ELSE /\ out.ret \in below
                 /\ \A s \in below : s <= out.ret

\* the answer is a listed time, neither the first one nor t - 1, and later
\* state-change times exist
WitC3_InnerChange ==
    /\ out.op = "last_state_change"
    /\ out.ret > 0
    /\ out.ret < out.time - 1
    /\ \E s \in SetOf(ListedTimes) : s >= out.time
    /\ \E s \in SetOf(ListedTimes) : s < out.ret

\* C11: state_change_times() returns the union of the presence transition
\* times and the ventilation's transition times as a strictly ascending
\* sequence without duplicates, the same one on every call.
ThmC11_SortedUnionEveryCall ==
    out.op = "state_change_times" =>
        /\ SetOf(out.ret) = IntervalTransitionTimes(obj.infected.presence)
                               \cup VentilationTransitionTimes(obj.ventilation)
        /\ StrictlyIncreasing(out.ret)
        /\ \A k \in DOMAIN state_change_times_cache :
              state_change_times_cache[k] = out.ret

\* a repeated call, answered from the cache, on a model whose presence and
\* ventilation share some transition times and each have some of their own
WitC11_RepeatedCallSharedTimes ==
    /\ out.op = "state_change_times"
    /\ out.hit
    /\ ncalls >= 2
    /\ LET p == IntervalTransitionTimes(obj.infected.presence)
           v == VentilationTransitionTimes(obj.ventilation)
       IN  /\ p \cap v # {}
           /\ p \ v # {}
           /\ v \ p # {}

\* C12: emission_rate(t) is 0 at every t at which the population is not
\* present, the start of a presence pair included, and is number times
\* emission_rate_when_present() at every t at which it is present, the end
\* of a presence pair included: one and the same non-zero value.
ThmC12_EmissionGatedByPresence ==
    out.op = "emission_rate" =>
        LET inf == obj.infected
            b == Boundaries(inf.presence)
            present == InSomePair(inf.presence, out.time)
            whenPresent == inf.number * EmissionRateWhenPresent(inf)
        IN  /\ whenPresent > 0
            /\ out.ret = IF present THEN whenPresent ELSE 0
            /\ \A j \in DOMAIN b :
                  /\ out.time = b[j][2] => out.ret = whenPresent
                  /\ out.time = b[j][1] => out.ret = 0

\* a population of two, asked at the end of its presence pair
WitC12_TwoPresentAtEnd ==
    /\ out.op = "emission_rate"
    /\ obj.infected.number = 2
    /\ \E j \in DOMAIN Boundaries(obj.infected.presence) :
          out.time = Boundaries(obj.infected.presence)[j][2]
    /\ out.ret > EmissionRateWhenPresent(obj.infected)

\* the position of the time within its period, in minutes
PeriodPhase(iv, time) == (time * MinutesPerHour) % iv.period

\* a periodic active interval of period P and duration D < P gives rate 0 at
\* the start instant of each period, a non-zero rate up to and including D
\* after it, and 0 from then to the next period
PeriodicGate(v, time, raised, ret) ==
    (/\ v.active.kind = "PeriodicInterval"
     /\ v.active.period > 0
     /\ v.active.duration < v.active.period
     /\ time < DayHours)
        => LET ph == PeriodPhase(v.active, time)
           IN  IF ph = 0 \/ ph > v.active.duration
               THEN raised = "" /\ ret = 0
               ELSE raised = "" => ret > 0

RECURSIVE MemberSum(_, _)
\* the sum of the first n of the members' rates
MemberSum(rates, n) ==
    IF n = 0 THEN 0 ELSE rates[n].value + MemberSum(rates, n - 1)

\* C14: for a MultipleVentilation, air_exchange(room, t) is the sum of the
\* members' air_exchange(room, t) at every t, and transition_times() is the
\* union of the members' transition_times(), also when the members have
\* different discontinuity times.
ThmC14_CompositeSumAndUnion ==
    obj.ventilation.kind = "MultipleVentilation" =>
        LET vs == obj.ventilation.ventilations IN
        /\ out.op = "air_exchange" =>
              LET rates == [i \in DOMAIN vs |->
                              SingleAirExchange(vs[i], obj.room, out.time)]
              IN  IF \E i \in DOMAIN vs : rates[i].raised # ""
                  THEN out.raised # ""
                  ELSE /\ out.raised = ""
                       /\ out.ret = MemberSum(rates, Len(vs))
        /\ out.op = "transition_times" =>
              out.ret = UNION {SingleTransitionTimes(vs[i]) : i \in DOMAIN vs}

\* a composite asked when two members with different transition times both
\* exchange air, at different rates
WitC14_TwoMembersActive ==
    /\ obj.ventilation.kind = "MultipleVentilation"
    /\ out.op = "air_exchange"
    /\ out.raised = ""
    /\ LET vs == obj.ventilation.ventilations
           r1 == SingleAirExchange(vs[1], obj.room, out.time).value
           r2 == SingleAirExchange(vs[2], obj.room, out.time).value
       IN  /\ r1 > 0
           /\ r2 > 0
           /\ r1 # r2
           /\ out.ret = r1 + r2
           /\ SingleTransitionTimes(vs[1]) # SingleTransitionTimes(vs[2])

\* C16: asking a WindowOpening that has no discharge coefficient for its air
\* exchange raises NotImplementedError at every query time, whether or not
\* its active interval is triggered at that time.
CexC16_AbstractWindowAlwaysRaises ==
    (out.op = "air_exchange" /\ obj.ventilation.kind = "WindowOpening") =>
        out.raised = "NotImplementedError"

RECURSIVE SweepLoop(_, _, _, _, _, _)
\* the forward sweep: from concentration c at time prev, visit the listed
\* times below time from the i-th on in ascending order, then finish with
\* the segment ending at time; every segment takes its rates at its end
SweepLoop(m, times, i, prev, c, time) ==
    LET end == IF i <= Len(times) /\ times[i] < time THEN times[i] ELSE time
        IVRR == InfectiousVirusRemovalRate(m, end)
    IN  IF IVRR.raised # ""
        THEN IVRR
        ELSE LET next == SegmentUpdate(IVRR.value, m.room.volume,
                                       EmissionRate(m.infected, end), c, end - prev)
             IN  IF end = time
                 THEN Return(next)
                 ELSE SweepLoop(m, times, i + 1, end, next, time)

\* C17: for every model and every t >= 0 the recursive concentration(t) is
\* the result of the forward sweep that starts from concentration 0 at time
\* 0, visits the state-change times below t in ascending order and finishes
\* with the segment ending at t, also when 0 is not a state-change time.
ThmC17_RecursionIsForwardSweep ==
    out.op = "concentration" =>
        LET times == Sorted(IntervalTransitionTimes(obj.infected.presence)
                              \cup VentilationTransitionTimes(obj.ventilation))
            swept == SweepLoop(obj, times, 1, 0, 0, out.time)
        IN  /\ out.raised = swept.raised
            /\ out.raised = "" => out.ret = swept.value

\* a query past at least two state-change times of a model whose first
\* state-change time is greater than 0, the result not being zero
WitC17_SweepFromLateFirstChange ==
    /\ out.op = "concentration"
    /\ out.raised = ""
    /\ out.ret > 0
    /\ 0 \notin SetOf(ListedTimes)
    /\ Cardinality({s \in SetOf(ListedTimes) : s < out.time}) >= 2

\* the two models have the same air-exchange rate at every time up to T and
\* the same state-change times up to T
AgreeUpTo(m1, m2, T) ==
    /\ \A u \in 0..T :
          AirExchange(m1.ventilation, m1.room, u)
              = AirExchange(m2.ventilation, m2.room, u)
    /\ {s \in SetOf(StateChangeTimes(m1)) : s <= T}
          = {s \in SetOf(StateChangeTimes(m2)) : s <= T}

\* the models with the room and the infected population of the model under
\* test, and another ventilation that agrees with its own up to T
Partners(T) ==
    {m2 \in WideModelSet :
        /\ m2 # obj
        /\ m2.room = obj.room
        /\ m2.infected = obj.infected
        /\ AgreeUpTo(obj, m2, T)}

\* C18: two models with the same room and infected population, whose
\* ventilations have the same state up to T and differ only after T, return
\* the same concentration(t) for every t <= T.
ThmC18_NoDependenceOnFuture ==
    out.op = "concentration" =>
        \A T \in ModelTimes :
            T >= out.time =>
                \A m2 \in Partners(T) :
                    Recurrence(m2, out.time)
                        = [raised |-> out.raised, value |-> out.ret]

\* a non-zero concentration at t >= 2 of a model that has a partner agreeing
\* with it up to t and giving another concentration at a later time
WitC18_PartnerDiffersLater ==
    /\ out.op = "concentration"
    /\ out.raised = ""
    /\ out.ret > 0
    /\ out.time >= 2
    /\ \E m2 \in Partners(out.time) :
          \E u \in ModelTimes :
              /\ u > out.time
              /\ Recurrence(m2, u) # Recurrence(obj, u)

\* the number of state-change instants below the time
ChangesBelow(time) == Cardinality({s \in SetOf(ListedTimes) : s < time})

\* C19 as stated: concentration(t) terminates, every recursive call being
\* made at a strictly smaller time that is a state-change time or 0, ending
\* at the base case, and the number of nested calls is the number of
\* state-change instants below t.
CexC19_NestedCallsAreChangesBelow ==
    (out.op = "concentration" /\ out.raised = "") =>
        /\ \A i \in DOMAIN out.nested :
              /\ out.nested[i] \in SetOf(ListedTimes) \cup {0}
              /\ out.nested[i] < (IF i = 1 THEN out.time ELSE out.nested[i - 1])
        /\ out.time > 0 => out.nested[Len(out.nested)] = 0
        /\ Len(out.nested) = ChangesBelow(out.time)

\* C19 as amended: every recursive call is made at the greatest state-change
\* time strictly below the current time, or at 0 when there is none; the
\* recursion ends at the base case t == 0; the number of nested calls is at
\* most the number of state-change instants below t plus one, and, with
\* nothing cached, it is that number when 0 is a state-change time or t is 0
\* and one more when 0 is not a state-change time.
ThmC19_NestedCallsBounded ==
    out.op = "concentration" =>
        /\ \A i \in DOMAIN out.nested :
              LET from == IF i = 1 THEN out.time ELSE out.nested[i - 1]
                  below == {s \in SetOf(ListedTimes) : s < from}
              IN  /\ out.nested[i] < from
                  /\ IF below = {}
                     THEN out.nested[i] = 0
                     ELSE /\ out.nested[i] \in below
                          /\ \A s \in below : s <= out.nested[i]
        /\ Len(out.nested) <= ChangesBelow(out.time) + 1
        /\ out.time = 0 => out.nested = <<>>
        /\ (out.raised = "" /\ out.time > 0) =>
              /\ out.nested[Len(out.nested)] = 0
              /\ Len(out.nested) = ChangesBelow(out.time)
                    + (IF 0 \in SetOf(ListedTimes) THEN 0 ELSE 1)

\* a query whose recursion passes two state-change times and then makes one
\* more call, at 0, which is not a state-change time
WitC19_ExtraCallAtZero ==
    /\ out.op = "concentration"
    /\ out.raised = ""
    /\ 0 \notin SetOf(ListedTimes)
    /\ ChangesBelow(out.time) = 2
    /\ Len(out.nested) = 3
    /\ out.nested[3] = 0

(***************************************************************************)
(* ExposureModel                                                           *)
(*                                                                         *)
(* Exposures, probabilities (per cent) and case numbers are fixed-point    *)
(* like the concentration.  integrate samples the concentration at the     *)
(* whole hours from start to stop (np.linspace takes 50 samples) and       *)
(* applies the trapezoidal rule of np.trapz to them.                       *)
(***************************************************************************)
Population(number, presence, mask, activity) ==
    [number |-> number, presence |-> presence, mask |-> mask,
     activity |-> activity]

ExposureModel(concentration_model, exposed, repeats) ==
    [concentration_model |-> concentration_model, exposed |-> exposed,
     repeats |-> repeats]

\* the one element of a one-element set (each call's outcome is bound once,
\* as the element of a set, before it is used)
The(S) == CHOOSE x \in S : TRUE

RECURSIVE IntegrateLoop(_, _, _, _, _, _)
\* the samples after the first: fn(v) for each v, and the trapezoid between
\* every two neighbouring samples
IntegrateLoop(m, v, stop, previous, area, st) ==
    IF v > stop
    THEN Outcome("", area, st)
    ELSE The({IF c.raised # ""
              THEN c
              ELSE IntegrateLoop(m, v + 1, stop, c.value,
                                 area + (previous + c.value) \div 2, c.st) :
              c \in {ConcentrationCall(m, v, st)}})

\* integrate(self.concentration_model.concentration, start, stop)
Integrate(m, start, stop, st) ==
    The({IF c.raised # ""
         THEN c
         ELSE IntegrateLoop(m, start + 1, stop, c.value, 0, c.st) :
         c \in {ConcentrationCall(m, start, st)}})

RECURSIVE ExposureLoop(_, _, _, _, _)
\* the loop of quanta_exposure over the exposed population's boundaries
ExposureLoop(em, b, i, exposure, st) ==
    IF i > Len(b)
    THEN Outcome("", exposure * em.repeats, st)
    ELSE The({IF area.raised # ""
              THEN area
              ELSE ExposureLoop(em, b, i + 1, exposure + area.value, area.st) :
              area \in {Integrate(em.concentration_model, b[i][1], b[i][2], st)}})

\* ExposureModel.quanta_exposure
QuantaExposure(em, st) ==
    ExposureLoop(em, Boundaries(em.exposed.presence), 1, 0, st)

\* np.exp(-x) for a fixed-point x in units of ln(2): 2^-x, exact at whole x
\* and linear between
ExpNegFixed(x) ==
    (ExpNeg(x \div Scale) * (2 * Scale - (x % Scale))) \div (2 * Scale)

\* ExposureModel.infection_probability
InfectionProbability(em, st) ==
    The({IF exposure.raised # ""
         THEN exposure
         ELSE LET inf_aero == (em.exposed.activity.inhalation_rate
                                 * (100 - em.exposed.mask.eta_inhale)
                                 * exposure.value) \div 1000
              IN  Outcome("", (Scale - ExpNegFixed(inf_aero)) * 100, exposure.st) :
         exposure \in {QuantaExposure(em, st)}})

\* ExposureModel.expected_new_cases
ExpectedNewCases(em, st) ==
    The({IF prob.raised # ""
         THEN prob
         ELSE Outcome("", (prob.value * em.exposed.number) \div 100, prob.st) :
         prob \in {InfectionProbability(em, st)}})

\* nested_replace(self, {'concentration_model.infected.number': number}): a
\* copy of the model with that one field replaced
NestedReplaceNumber(em, number) ==
    [em EXCEPT !.concentration_model.infected.number = number]

ReproductionNumberOfSelf(em, st) == ExpectedNewCases(em, st)

\* ExposureModel.reproduction_number
ReproductionNumber(em, st) ==
    IF em.concentration_model.infected.number = 1
    THEN ExpectedNewCases(em, st)
    ELSE ExpectedNewCases(NestedReplaceNumber(em, 1), st)

\* exposed over (1, 3]
ExposedTen == Population(10, SpecificInterval(<<<<1, 3>>>>), NoMask, Seated)

\* exposed over (0, 2] and (3, 4], masked
ExposedFive == Population(5, PresenceA, TypeI, Seated)

ExposureSet ==
    {ExposureModel(m, exposed, repeats) :
        m \in WideModelSet, exposed \in {ExposedTen, ExposedFive},
        repeats \in {1, 2}}

(***************************************************************************)
(* SpecExposure: one exposure model is constructed and one of its          *)
(* operations is called.                                                   *)
(***************************************************************************)
InitExposure ==
    /\ obj \in ExposureSet
    /\ out = NoCall
    /\ concentration_cache = <<>>
    /\ emission_rate_cache = <<>>
    /\ state_change_times_cache = <<>>
    /\ ncalls = 0

\* what a call leaves: its result and the caches
Returned(op, r) ==
    /\ out' = [op |-> op, raised |-> r.raised, ret |-> r.value]
    /\ concentration_cache' = r.st.concentration
    /\ emission_rate_cache' = r.st.emission_rate
    /\ state_change_times_cache' = r.st.state_change_times
    /\ ncalls' = ncalls + 1
    /\ obj' = obj

CallQuantaExposure ==
    /\ out = NoCall
    /\ \E r \in {QuantaExposure(obj, TheCaches)} : Returned("quanta_exposure", r)

CallInfectionProbability ==
    /\ out = NoCall
    /\ \E r \in {InfectionProbability(obj, TheCaches)} : Returned("infection_probability", r)

CallExpectedNewCases ==
    /\ out = NoCall
    /\ \E r \in {ExpectedNewCases(obj, TheCaches)} : Returned("expected_new_cases", r)

CallReproductionNumber ==
    /\ out = NoCall
    /\ \E r \in {ReproductionNumber(obj, TheCaches)} : Returned("reproduction_number", r)

NextExposure ==
    \/ CallQuantaExposure
    \/ CallInfectionProbability
    \/ CallExpectedNewCases
    \/ CallReproductionNumber

SpecExposure == InitExposure /\ [][NextExposure]_vars

(***************************************************************************)
(* Claims about the exposure model (checked under SpecExposure).           *)
(***************************************************************************)
\* what a call of expected_new_cases() on the model returns or raises
CasesOf(em) ==
    LET r == ExpectedNewCases(em, Caches(<<>>, <<>>, <<>>))
    IN  [raised |-> r.raised, value |-> r.value]

\* the exposure model built from the parts of em with an infected headcount
\* of 1
SingleInfected(em) ==
    LET cm == em.concentration_model
        inf == cm.infected
    IN  ExposureModel(
            ConcentrationModel(cm.room, cm.ventilation,
                InfectedPopulation(1, inf.presence, inf.mask, inf.activity,
                                   inf.virus, inf.expiration)),
            em.exposed, em.repeats)

====
